---- MODULE Spec2Model ----
(***************************************************************************)
(* cuOpt benchmark client (src/benchmarks/benchmark_client.py) and the EV  *)
(* fleet example (src/use-cases/ev-fleet/example.py).                      *)
(*                                                                         *)
(* Two specifications share the definitions below:                         *)
(*   Spec      one invocation of CuOptClient.run_benchmark, step by step,  *)
(*             against a service that answers each POST as it likes;       *)
(*   SpecCalls direct calls of generate_cost_matrix, build_vrp_payload,    *)
(*             generate_ev_fleet_problem and optimize with arguments drawn *)
(*             from bounded sets.                                          *)
(*                                                                         *)
(* Python values: None is <<>> and a present value v is <<v>>; a dict is a *)
(* function on strings; a list is a sequence.  time.time() is read as an   *)
(* integer number of milliseconds (the unit the seed derivation uses), and *)
(* is taken to be non-decreasing.  Elapsed times are kept in that unit.    *)
(***************************************************************************)
EXTENDS Integers, Sequences, FiniteSets, TLC

VARIABLES
    clock,                    \* time.time() in milliseconds
    rngState,                 \* state of the process-wide `random` generator
    scenarios,                \* run_benchmark argument
    iterations_per_scenario,  \* run_benchmark argument
    pc,                       \* position of the run_benchmark control flow
    sIdx,                     \* 1-based position of `for scenario in scenarios`
    name,                     \* local `name`
    i,                        \* local `i` of `for i in range(...)`
    scenario_results,         \* local `scenario_results`
    results,                  \* results["scenarios"], insertion-ordered
    inflight,                 \* the POST being waited for, or None
    result,                   \* last value returned by optimize, or None
    posts,                    \* every POST issued so far, in order
    last_reply,               \* what the service did with the last POST, or None
    exc,                      \* exception that left run_benchmark, or "none"
    ret,                      \* SpecCalls: the last direct call and its value
    prev_gen,                 \* SpecCalls: the generate_cost_matrix call before it
    draws                     \* SpecCalls: draws other code took from `random`

vars == <<clock, rngState, scenarios, iterations_per_scenario, pc, sIdx, name, i,
          scenario_results, results, inflight, result, posts, last_reply, exc, ret,
          prev_gen, draws>>

runVars == <<scenarios, iterations_per_scenario, pc, sIdx, name, i,
             scenario_results, results, inflight, result, posts, last_reply, exc>>

callVars == <<ret, prev_gen, draws>>

----------------------------------------------------------------------------
(* Bounds of the model *)

MaxClock == 1
MaxScenarios == 2
MaxIterations == 2
MaxPosts == 4
MaxLocations == 3
MaxDraws == 1
MaxDeliveries == 2
MaxStations == 1

----------------------------------------------------------------------------
(* Python values *)

None == <<>>
Some(v) == <<v>>
IsNone(o) == o = <<>>
Truthy(o) == o /= <<>> /\ o[1] /= 0

\* dict.get(key, default) on an optional field
GetOr(o, default) == IF o = <<>> THEN default ELSE o[1]

RECURSIVE Repeat(_, _)
\* [v for _ in range(n)]: range(n) is empty when n <= 0
Repeat(v, n) == IF n <= 0 THEN <<>> ELSE <<v>> \o Repeat(v, n - 1)

\* list(range(lo, hi))
Range(lo, hi) == IF hi <= lo THEN <<>> ELSE [k \in 1..(hi - lo) |-> lo + k - 1]

----------------------------------------------------------------------------
(* The `random` module.  The generator is deterministic in its state: a    *)
(* 16-bit linear congruential step stands for one Mersenne-Twister draw.  *)

\* random.seed(a)
SeedState(a) == a % 65536

\* one draw advances the state
RngNext(s) == (25173 * s + 13849) % 65536

RECURSIVE RngIter(_, _)
\* the state after k draws
RngIter(s, k) == IF k <= 0 THEN s ELSE RngNext(RngIter(s, k - 1))

\* random.randint(lo, hi) drawn as the k-th draw from state s
\* fault: the span taken as hi + 1, so that draws run past hi
RandIntAtWide(s, k, lo, hi) == lo + ((RngIter(s, k) \div 16) % (hi + 1))
RandIntAt(s, k, lo, hi) == lo + ((RngIter(s, k) \div 16) % (hi - lo + 1))

\* [random.randint(lo, hi) for _ in range(n)]
RandInts(s, n, lo, hi) ==
    IF n <= 0 THEN <<>> ELSE [k \in 1..n |-> RandIntAt(s, k, lo, hi)]

Max0(n) == IF n < 0 THEN 0 ELSE n

----------------------------------------------------------------------------
(* CuOptClient.generate_cost_matrix *)

CostLow == 5
CostHigh == 100

\* int(time.time() * 1000) % 2**32; clock values of the model are below 2**32
ClockSeed(t) == t

\* the argument of random.seed: `if seed:` is false for None and for 0
SeedUsed(seed, t) == IF Truthy(seed) THEN seed[1] ELSE ClockSeed(t)

\* number of off-diagonal cells visited before cell (r, c), 1-based, row-major
DrawIndex(n, r, c) == (r - 1) * (n - 1) + (IF c > r THEN c - 1 ELSE c)

\* fault: the i == j test dropped, every cell drawn
MatrixNoDiagonal(s, n, lo, hi) ==
    IF n <= 0 THEN <<>>
    ELSE [r \in 1..n |-> [c \in 1..n |-> RandIntAt(s, (r - 1) * n + c, lo, hi)]]
\* the nested loops over range(num_locations), drawing from state s
MatrixFrom(s, n, lo, hi) ==
    IF n <= 0 THEN <<>>
    ELSE [r \in 1..n |->
            [c \in 1..n |-> IF r = c THEN 0
                            ELSE RandIntAt(s, DrawIndex(n, r, c), lo, hi)]]

\* draws consumed by the loops
MatrixDraws(n) == IF n <= 0 THEN 0 ELSE n * (n - 1)

\* returns the matrix and the generator state it leaves behind
generate_cost_matrix(num_locations, seed, t) ==
    LET s == SeedState(SeedUsed(seed, t))
    IN  [matrix |-> MatrixFrom(s, num_locations, CostLow, CostHigh),
         rng    |-> RngIter(s, MatrixDraws(num_locations))]

----------------------------------------------------------------------------
(* CuOptClient.build_vrp_payload *)

DefaultCapacity == 100
DefaultTimeLimit == 30
DemandLow == 5
DemandHigh == 20
ServiceLow == 5
ServiceHigh == 15
WindowStart == 0
WindowEnd == 480

\* "demand": [demands] -- one row per capacity dimension
DemandWrap(demands) == <<demands>>

\* fault: the range runs one index past the matrix
TaskLocationsThroughN(num_locations) == Range(1, num_locations + 1)
\* fault: the depot counted as a task
TaskLocationsFromZero(num_locations) == Range(0, num_locations)
\* list(range(1, num_locations))
TaskLocations(num_locations) == Range(1, num_locations)

\* [[0, 0] for _ in range(num_vehicles)]
VehicleLocations(num_vehicles) == Repeat(<<0, 0>>, num_vehicles)

\* fault: one capacity for the whole fleet
FleetCapacitiesSingle(vehicle_capacity, num_vehicles) == <<<<vehicle_capacity>>>>
\* [[vehicle_capacity] * num_vehicles] -- one row per capacity dimension
FleetCapacities(vehicle_capacity, num_vehicles) ==
    <<Repeat(vehicle_capacity, num_vehicles)>>

\* [[0, 480] for _ in range(num_vehicles)]
VehicleTimeWindows(num_vehicles) == Repeat(<<WindowStart, WindowEnd>>, num_vehicles)

\* returns the payload and the generator state it leaves behind
build_vrp_payload(num_vehicles, num_locations, vehicle_capacity, time_limit, time_windows, demands, service_times, t) ==
    LET gen       == generate_cost_matrix(num_locations, None, t)
        num_tasks == num_locations - 1
        s1        == gen.rng
        dem       == IF IsNone(demands)
                     THEN RandInts(s1, num_tasks, DemandLow, DemandHigh)
                     ELSE demands[1]
        s2        == IF IsNone(demands) THEN RngIter(s1, Max0(num_tasks)) ELSE s1
        svc       == IF IsNone(service_times)
                     THEN RandInts(s2, num_tasks, ServiceLow, ServiceHigh)
                     ELSE service_times[1]
        s3        == IF IsNone(service_times) THEN RngIter(s2, Max0(num_tasks)) ELSE s2
        tws       == IF IsNone(time_windows)
                     THEN Repeat(<<WindowStart, WindowEnd>>, num_tasks)
                     ELSE time_windows[1]
    IN  [payload |->
            [cost_matrix_data |-> [data |-> ("0" :> gen.matrix)],
             fleet_data |->
                [vehicle_locations |-> VehicleLocations(num_vehicles),
                 capacities |-> FleetCapacities(vehicle_capacity, num_vehicles),
                 vehicle_time_windows |-> VehicleTimeWindows(num_vehicles)],
             task_data |->
                [task_locations |-> TaskLocations(num_locations),
                 demand |-> DemandWrap(dem),
                 task_time_windows |-> tws,
                 service_times |-> svc],
             solver_config |-> [time_limit |-> time_limit]],
         rng |-> s3]

----------------------------------------------------------------------------
(* generate_ev_fleet_problem (src/use-cases/ev-fleet/example.py) *)

EvCostLow == 3
EvCostHigh == 15
EvDemandLow == 1
EvDemandHigh == 10
EvServiceLow == 5
EvServiceHigh == 15
EvStartLow == 480
EvStartHigh == 900
EvWindowMin == 60
EvWindowMax == 180
EvDayStart == 480
EvDayEnd == 1080
EvCapacity == 50
EvTimeLimit == 30

Min(a, b) == IF a <= b THEN a ELSE b

\* fault: list(range(num_tasks)), the depot taken for a delivery
EvTaskLocationsFromZero(num_tasks) == Range(0, num_tasks)
\* list(range(1, num_tasks + 1))
EvTaskLocations(num_tasks) == Range(1, num_tasks + 1)

\* the time_windows loop: two draws per task, start then window length
EvTimeWindows(s, num_tasks) ==
    IF num_tasks <= 0 THEN <<>>
    ELSE [k \in 1..num_tasks |->
            LET start == RandIntAt(s, 2 * k - 1, EvStartLow, EvStartHigh)
                end   == start + RandIntAt(s, 2 * k, EvWindowMin, EvWindowMax)
            IN  <<start, Min(end, EvDayEnd)>>]

\* returns the payload and the generator state it leaves behind
generate_ev_fleet_problem(num_vehicles, num_deliveries, num_charging_stations, t) ==
    LET s0              == SeedState(ClockSeed(t))
        total_locations == 1 + num_deliveries + num_charging_stations
        num_tasks       == num_deliveries
        s1              == RngIter(s0, MatrixDraws(total_locations))
        s2              == RngIter(s1, Max0(num_tasks))
        s3              == RngIter(s2, Max0(num_tasks))
    IN  [payload |->
            [cost_matrix_data |->
                [data |-> ("0" :> MatrixFrom(s0, total_locations, EvCostLow, EvCostHigh))],
             fleet_data |->
                [vehicle_locations |-> Repeat(<<0, 0>>, num_vehicles),
                 capacities |-> <<Repeat(EvCapacity, num_vehicles)>>,
                 vehicle_time_windows |->
                     Repeat(<<EvDayStart, EvDayEnd>>, num_vehicles)],
             task_data |->
                [task_locations |-> EvTaskLocations(num_tasks),
                 demand |-> <<RandInts(s1, num_tasks, EvDemandLow, EvDemandHigh)>>,
                 task_time_windows |-> EvTimeWindows(s3, num_tasks),
                 service_times |-> RandInts(s2, num_tasks, EvServiceLow, EvServiceHigh)],
             solver_config |-> [time_limit |-> EvTimeLimit]],
         rng |-> RngIter(s3, 2 * Max0(num_tasks))]

----------------------------------------------------------------------------
(* CuOptClient.optimize *)

TimeoutSlack == 120

\* payload.get("solver_config", {}).get("time_limit", 30)
SolverTimeLimit(payload) ==
    IF "solver_config" \in DOMAIN payload
       /\ "time_limit" \in DOMAIN payload["solver_config"]
    THEN payload["solver_config"]["time_limit"]
    ELSE DefaultTimeLimit

\* fault: the slack left out
TimeoutNoSlack(payload, timeout) ==
    IF IsNone(timeout) THEN SolverTimeLimit(payload) ELSE timeout[1]
\* the timeout handed to session.post
EffectiveTimeout(payload, timeout) ==
    IF IsNone(timeout) THEN SolverTimeLimit(payload) + TimeoutSlack ELSE timeout[1]

\* what the service may do with one POST
ResponseBody(status) ==
    [response |-> [solver_response |-> [status |-> status, solution_cost |-> 123]]]
ErrorBody == [error |-> "bad request"]
Bodies == {ResponseBody(0), ResponseBody(1), ErrorBody}
StatusCodes == {200, 400}
ObjectReplies == [kind : {"object"}, body : Bodies, status_code : StatusCodes]
\* a JSON array decodes but takes no "_metadata" key; other text does not decode
ArrayReplies == [kind : {"array"}, status_code : StatusCodes]
GarbageReplies == [kind : {"garbage"}, status_code : StatusCodes]
\* connection refused, or the transport timeout exceeded
TransportFailure == [kind |-> "transport_failure"]

\* elapsed = time.time() - start
Elapsed(start, end) == end - start

\* result = response.json(); result["_metadata"] = {...}
WithMetadata(reply, start, end) ==
    ("_metadata" :> [response_time_seconds |-> Elapsed(start, end),
                     status_code |-> reply.status_code]) @@ reply.body

\* the exception optimize leaves with, "none" when it returns
OptimizeRaises(reply) ==
    CASE reply.kind = "transport_failure" -> "ConnectionError"
      [] reply.kind = "garbage" -> "JSONDecodeError"
      [] reply.kind = "array" -> "TypeError"
      [] OTHER -> "none"

----------------------------------------------------------------------------
(* CuOptClient.optimize_fleet and CuOptClient.run_benchmark *)

\* keyword arguments optimize_fleet forwards through **kwargs
KwargsAccepted(scenario) == IsNone(scenario.name)

\* fault: success read off the HTTP status
SuccessByStatusCode(res) == res["_metadata"].status_code = 200
\* fault: success read off the solver status
SuccessBySolverStatus(res) ==
    "response" \in DOMAIN res /\ res["response"].solver_response.status = 0
\* "success": "response" in result
Success(res) == "response" \in DOMAIN res

\* fault: records kept newest first
PrependRecord(list, rec) == <<rec>> \o list
\* scenario_results.append({...})
AppendRecord(list, rec) == Append(list, rec)

\* "iteration": i + 1
IterationNumber(idx) == idx + 1

\* fault: generated names counted from 1
DefaultNameOneBased(n) == "scenario_" \o ToString(n + 1)
\* f"scenario_{len(results['scenarios'])}"
DefaultName(n) == "scenario_" \o ToString(n)

HasKey(d, k) == \E p \in 1..Len(d) : d[p].key = k

\* d[k] = v on an insertion-ordered dict
DictSet(d, k, v) ==
    IF HasKey(d, k)
    THEN [p \in 1..Len(d) |-> IF d[p].key = k THEN [key |-> k, value |-> v] ELSE d[p]]
    ELSE Append(d, [key |-> k, value |-> v])

Keys(d) == [p \in 1..Len(d) |-> d[p].key]

\* scenario dicts handed to run_benchmark; an absent key is None
Scenario(nm, nv, nl, cap, tl) ==
    [name |-> nm, num_vehicles |-> nv, num_locations |-> nl,
     vehicle_capacity |-> cap, time_limit |-> tl,
     time_windows |-> None, demands |-> None, service_times |-> None]

RunConfigs ==
    {Scenario(None, 1, 2, None, None),
     Scenario(None, 2, 3, Some(50), Some(60)),
     Scenario(Some("A"), 1, 2, Some(100), Some(30)),
     Scenario(Some("B"), 2, 3, Some(50), Some(60))}

ScenarioLists == UNION {[1..n -> RunConfigs] : n \in 0..MaxScenarios}

NoCall == [op |-> "none"]

Init ==
    /\ clock = 0
    /\ rngState = 0
    /\ scenarios \in ScenarioLists
    /\ iterations_per_scenario \in 0..MaxIterations
    /\ Len(scenarios) * iterations_per_scenario <= MaxPosts
    /\ pc = "call"
    /\ sIdx = 0
    /\ name = ""
    /\ i = 0
    /\ scenario_results = <<>>
    /\ results = <<>>
    /\ inflight = None
    /\ result = None
    /\ posts = <<>>
    /\ last_reply = None
    /\ exc = "none"
    /\ ret = NoCall
    /\ prev_gen = None
    /\ draws = 0

\* time passes while the client is in use
Tick ==
    /\ pc \in {"for_scenario", "for_iteration", "post", "direct"}
    /\ ret.op /= "optimize"
    /\ clock < MaxClock
    /\ clock' = clock + 1
    /\ UNCHANGED <<rngState, runVars, callVars>>

\* results = {"timestamp": ..., "endpoint": ..., "scenarios": {}}
RunBenchmark ==
    /\ pc = "call"
    /\ results' = <<>>
    /\ sIdx' = 1
    /\ pc' = "for_scenario"
    /\ UNCHANGED <<clock, rngState, scenarios, iterations_per_scenario, name, i,
                   scenario_results, inflight, result, posts, last_reply, exc,
                   callVars>>

\* for scenario in scenarios: name = scenario.get("name", ...); scenario_results = []
BeginScenario ==
    /\ pc = "for_scenario"
    /\ sIdx <= Len(scenarios)
    /\ name' = GetOr(scenarios[sIdx].name, DefaultName(Len(results)))
    /\ scenario_results' = <<>>
    /\ i' = 0
    /\ pc' = "for_iteration"
    /\ UNCHANGED <<clock, rngState, scenarios, iterations_per_scenario, sIdx,
                   results, inflight, result, posts, last_reply, exc, callVars>>

\* optimize_fleet(**scenario) with a key build_vrp_payload does not take
OptimizeFleetRejects ==
    /\ pc = "for_iteration"
    /\ i < iterations_per_scenario
    /\ ~KwargsAccepted(scenarios[sIdx])
    /\ pc' = "raised"
    /\ exc' = "TypeError"
    /\ UNCHANGED <<clock, rngState, scenarios, iterations_per_scenario, sIdx, name,
                   i, scenario_results, results, inflight, result, posts, last_reply,
                   callVars>>

\* fault: the POST sent again
PostsIssuedTwice(log, entry) == Append(Append(log, entry), entry)
\* one session.post per call of optimize
PostsIssued(log, entry) == Append(log, entry)

\* fault: optimize_fleet builds the payload without passing time_limit on
FleetTimeLimitDropped(scenario) == DefaultTimeLimit
\* the time_limit optimize_fleet(**scenario) hands to build_vrp_payload
FleetTimeLimit(scenario) == GetOr(scenario.time_limit, DefaultTimeLimit)

\* optimize_fleet(**scenario) up to the blocking session.post
Submit ==
    /\ pc = "for_iteration"
    /\ i < iterations_per_scenario
    /\ KwargsAccepted(scenarios[sIdx])
    /\ LET sc    == scenarios[sIdx]
           built == build_vrp_payload(sc.num_vehicles, sc.num_locations,
                                      GetOr(sc.vehicle_capacity, DefaultCapacity),
                                      FleetTimeLimit(sc),
                                      sc.time_windows, sc.demands, sc.service_times,
                                      clock)
           tmo   == EffectiveTimeout(built.payload, None)
       IN  /\ rngState' = built.rng
           /\ inflight' = Some([payload |-> built.payload, timeout |-> tmo,
                                start |-> clock])
           /\ posts' = PostsIssued(posts,
                            [scenario |-> sIdx, iteration |-> i + 1,
                             payload |-> built.payload, timeout |-> tmo,
                             state |-> "pending", elapsed |-> 0, success |-> FALSE])
    /\ pc' = "post"
    /\ UNCHANGED <<clock, scenarios, iterations_per_scenario, sIdx, name, i,
                   scenario_results, results, result, last_reply, exc, callVars>>

\* the log entry of the POST in flight, closed with its outcome
Closed(log, how, elapsed, success) ==
    [log EXCEPT ![Len(log)] =
        [@ EXCEPT !.state = how, !.elapsed = elapsed, !.success = success]]

\* the service answers a JSON object: optimize returns, the record is appended
ReplyObject ==
    /\ pc = "post"
    /\ \E reply \in ObjectReplies :
        LET res == WithMetadata(reply, inflight[1].start, clock)
        IN  /\ last_reply' = Some(reply)
            /\ result' = Some(res)
            /\ scenario_results' = AppendRecord(scenario_results,
                    [iteration |-> IterationNumber(i),
                     response_time |-> res["_metadata"].response_time_seconds,
                     success |-> Success(res)])
            /\ posts' = Closed(posts, "returned", clock - inflight[1].start,
                               "response" \in DOMAIN reply.body)
    /\ inflight' = None
    /\ i' = i + 1
    /\ pc' = "for_iteration"
    /\ UNCHANGED <<clock, rngState, scenarios, iterations_per_scenario, sIdx, name,
                   results, exc, callVars>>

\* fault: the exception swallowed and the loop resumed
AfterRaiseContinue(e) == "for_iteration"
\* run_benchmark has no try/except: an exception leaves it
AfterRaise(e) == "raised"

\* the POST fails, or its body is no JSON object: optimize raises
ReplyRaises ==
    /\ pc = "post"
    /\ \E reply \in ArrayReplies \cup GarbageReplies \cup {TransportFailure} :
        /\ last_reply' = Some(reply)
        /\ exc' = OptimizeRaises(reply)
        /\ posts' = Closed(posts, "raised", 0, FALSE)
        /\ pc' = AfterRaise(OptimizeRaises(reply))
    /\ inflight' = None
    /\ UNCHANGED <<clock, rngState, scenarios, iterations_per_scenario, sIdx, name,
                   i, scenario_results, results, result, callVars>>

\* results["scenarios"][name] = {"config": scenario, "results": scenario_results}
StoreScenario ==
    /\ pc = "for_iteration"
    /\ i >= iterations_per_scenario
    /\ results' = DictSet(results, name,
                          [config |-> scenarios[sIdx], results |-> scenario_results])
    /\ sIdx' = sIdx + 1
    /\ pc' = "for_scenario"
    /\ UNCHANGED <<clock, rngState, scenarios, iterations_per_scenario, name, i,
                   scenario_results, inflight, result, posts, last_reply, exc,
                   callVars>>

\* return results
Return ==
    /\ pc = "for_scenario"
    /\ sIdx > Len(scenarios)
    /\ pc' = "returned"
    /\ UNCHANGED <<clock, rngState, scenarios, iterations_per_scenario, sIdx, name,
                   i, scenario_results, results, inflight, result, posts, last_reply,
                   exc, callVars>>

Next ==
    \/ Tick
    \/ RunBenchmark
    \/ BeginScenario
    \/ OptimizeFleetRejects
    \/ Submit
    \/ ReplyObject
    \/ ReplyRaises
    \/ StoreScenario
    \/ Return

Spec == Init /\ [][Next]_vars

----------------------------------------------------------------------------
(* Direct calls of the client's operations.  A caller either calls          *)
(* generate_cost_matrix twice, with time passing and other draws taken in  *)
(* between, or builds payloads (generic or EV) and ends, as the main()     *)
(* functions do, with one optimize call on the payload it built last.      *)

Seeds == {None, Some(0), Some(1), Some(7)}
VehicleCounts == {1, 2}
VehicleCapacities == {50, 100}
TimeLimits == {30, 60}
ExplicitTimeouts == {None, Some(10)}

\* caller-supplied overrides, one value per task
DemandsArg(n) == {None, Some(Repeat(7, n - 1))}
ServiceTimesArg(n) == {None, Some(Repeat(9, n - 1))}
TimeWindowsArg(n) == {None, Some(Repeat(<<60, 120>>, n - 1))}

\* a payload a caller built without a solver_config
WithoutSolverConfig(p) == [k \in DOMAIN p \ {"solver_config"} |-> p[k]]

InitCalls ==
    /\ clock = 0
    /\ rngState = 0
    /\ scenarios = <<>>
    /\ iterations_per_scenario = 0
    /\ pc = "direct"
    /\ sIdx = 0
    /\ name = ""
    /\ i = 0
    /\ scenario_results = <<>>
    /\ results = <<>>
    /\ inflight = None
    /\ result = None
    /\ posts = <<>>
    /\ last_reply = None
    /\ exc = "none"
    /\ ret = NoCall
    /\ prev_gen = None
    /\ draws = 0

\* other code draws from the shared generator after a generate_cost_matrix call
Draw ==
    /\ ret.op = "generate_cost_matrix"
    /\ draws < MaxDraws
    /\ draws' = draws + 1
    /\ rngState' = RngNext(rngState)
    /\ UNCHANGED <<clock, runVars, ret, prev_gen>>

CallGenerate ==
    /\ ret.op \in {"none", "generate_cost_matrix"}
    /\ prev_gen = None
    /\ \E n \in 0..MaxLocations, seed \in Seeds :
        LET gen == generate_cost_matrix(n, seed, clock)
        IN  /\ ret' = [op |-> "generate_cost_matrix", num_locations |-> n,
                       seed |-> seed, matrix |-> gen.matrix]
            /\ prev_gen' = IF ret.op = "generate_cost_matrix" THEN Some(ret) ELSE None
            /\ rngState' = gen.rng
            /\ UNCHANGED <<clock, runVars, draws>>

CallBuild ==
    /\ ret.op \in {"none", "generate_cost_matrix", "build_vrp_payload"}
    /\ prev_gen = None
    /\ \E nv \in VehicleCounts, nl \in 2..MaxLocations, tl \in TimeLimits,
          cap \in VehicleCapacities :
      \E tw \in TimeWindowsArg(nl), dem \in DemandsArg(nl), svc \in ServiceTimesArg(nl) :
        LET built == build_vrp_payload(nv, nl, cap, tl, tw, dem, svc, clock)
        IN  /\ ret' = [op |-> "build_vrp_payload", num_vehicles |-> nv,
                       num_locations |-> nl, vehicle_capacity |-> cap,
                       time_limit |-> tl, time_windows |-> tw, demands |-> dem,
                       service_times |-> svc, payload |-> built.payload]
            /\ prev_gen' = None
            /\ rngState' = built.rng
            /\ UNCHANGED <<clock, runVars, draws>>

CallGenerateEv ==
    /\ ret.op \in {"none", "generate_cost_matrix"}
    /\ prev_gen = None
    /\ \E nv \in VehicleCounts, nd \in 0..MaxDeliveries, ns \in 0..MaxStations :
        LET built == generate_ev_fleet_problem(nv, nd, ns, clock)
        IN  /\ ret' = [op |-> "generate_ev_fleet_problem", num_vehicles |-> nv,
                       num_deliveries |-> nd, num_charging_stations |-> ns,
                       payload |-> built.payload]
            /\ prev_gen' = None
            /\ rngState' = built.rng
            /\ UNCHANGED <<clock, runVars, draws>>

\* optimize(payload, timeout) from the call to its return or its exception
CallOptimize ==
    /\ ret.op \in {"build_vrp_payload", "generate_ev_fleet_problem"}
    /\ \E p \in {ret.payload, WithoutSolverConfig(ret.payload)},
          timeout \in ExplicitTimeouts,
          reply \in ObjectReplies \cup ArrayReplies \cup GarbageReplies
                    \cup {TransportFailure},
          end \in clock..MaxClock :
        /\ clock' = end
        /\ ret' = [op |-> "optimize",
                   solver_config |-> IF "solver_config" \in DOMAIN p
                                     THEN Some(p["solver_config"]) ELSE None,
                   timeout |-> timeout,
                   post_timeout |-> EffectiveTimeout(p, timeout),
                   reply |-> reply, raised |-> OptimizeRaises(reply),
                   value |-> IF OptimizeRaises(reply) = "none"
                             THEN Some(WithMetadata(reply, clock, end))
                             ELSE None]
    /\ prev_gen' = None
    /\ UNCHANGED <<rngState, runVars, draws>>

NextCalls ==
    \/ Tick
    \/ Draw
    \/ CallGenerate
    \/ CallBuild
    \/ CallGenerateEv
    \/ CallOptimize

SpecCalls == InitCalls /\ [][NextCalls]_vars

----------------------------------------------------------------------------
(* Properties *)

Named(sc) == sc.name /= None
NamesDistinct(list) ==
    /\ \A p \in 1..Len(list) : Named(list[p])
    /\ \A p, q \in 1..Len(list) : list[p].name = list[q].name => p = q

Finished == pc \in {"returned", "raised"}

\* the position in `posts` of iteration j of scenario s
PostOf(s, j) == (s - 1) * iterations_per_scenario + j

\* a reply step: the POST in flight is answered and optimize returns or raises
Answered == pc = "post" /\ pc' /= "post"

\* C1: for scenarios with pairwise distinct names and k >= 1, against a service
\* that always answers decodable JSON, run_benchmark returns a report with one
\* entry per scenario, keyed by its name, each holding k records numbered 1..k.
C1_NamedScenariosReported ==
    (/\ Finished
     /\ NamesDistinct(scenarios)
     /\ iterations_per_scenario >= 1
     /\ exc \notin {"ConnectionError", "JSONDecodeError"})
    => /\ pc = "returned"
       /\ Keys(results) = [p \in 1..Len(scenarios) |-> scenarios[p].name[1]]
       /\ \A p \in 1..Len(results) :
            /\ Len(results[p].value.results) = iterations_per_scenario
            /\ \A j \in 1..iterations_per_scenario :
                 results[p].value.results[j].iteration = j

\* C2: two calls generate_cost_matrix(n, s) with the same supplied seed s, s = 0
\* included, return the same matrix whatever the clock and the draws in between.
C2_SuppliedSeedRepeats ==
    (/\ ret.op = "generate_cost_matrix"
     /\ prev_gen /= None
     /\ ret.seed /= None
     /\ prev_gen[1].seed = ret.seed
     /\ prev_gen[1].num_locations = ret.num_locations)
    => prev_gen[1].matrix = ret.matrix

\* C3 as stated: task_locations, demand, service_times and task_time_windows of
\* a built payload each have length N - 1.
C3_AllFourLengths ==
    ret.op = "build_vrp_payload" =>
        LET td == ret.payload.task_data
            n  == ret.num_locations
        IN  /\ Len(td.task_locations) = n - 1
            /\ Len(td.demand) = n - 1
            /\ Len(td.service_times) = n - 1
            /\ Len(td.task_time_windows) = n - 1

\* C3 as amended: task_locations, service_times and task_time_windows each have
\* length N - 1, and demand is a list of exactly one row, of length N - 1.
C3_TaskLengths ==
    ret.op = "build_vrp_payload" =>
        LET td == ret.payload.task_data
            n  == ret.num_locations
        IN  /\ Len(td.task_locations) = n - 1
            /\ Len(td.demand) = 1
            /\ Len(td.demand[1]) = n - 1
            /\ Len(td.service_times) = n - 1
            /\ Len(td.task_time_windows) = n - 1

C3_Witness ==
    /\ ret.op = "build_vrp_payload"
    /\ ret.num_locations = 3
    /\ ret.demands /= None
    /\ ret.service_times = None
    /\ ret.time_windows = None
    /\ Len(ret.payload.task_data.demand[1]) = 2

\* C4: optimize called without a timeout on a payload whose
\* solver_config.time_limit is T posts with transport timeout T + 120.
C4_DefaultTimeout ==
    (/\ ret.op = "optimize"
     /\ ret.timeout = None
     /\ ret.solver_config /= None)
    => ret.post_timeout = ret.solver_config[1].time_limit + 120

C4_Witness ==
    /\ ret.op = "optimize"
    /\ ret.timeout = None
    /\ ret.solver_config /= None
    /\ ret.solver_config[1].time_limit = 30
    /\ ret.post_timeout = 150

\* C5: when the service answers a JSON object without a "response" key, with
\* any status code, optimize returns without raising and run_benchmark appends
\* a record with success = FALSE and goes on to the next iteration.
C5_ErrorBodyRecorded ==
    [][(/\ Answered
        /\ last_reply'[1].kind = "object"
        /\ "response" \notin DOMAIN last_reply'[1].body)
       => /\ exc' = "none"
          /\ pc' = "for_iteration"
          /\ i' = i + 1
          /\ result' /= None
          /\ Len(scenario_results') = Len(scenario_results) + 1
          /\ scenario_results'[Len(scenario_results')].success = FALSE
          /\ scenario_results'[Len(scenario_results')].iteration = i + 1]_vars

C5_Witness ==
    /\ pc = "post"
    /\ Len(scenario_results) = 1
    /\ scenario_results[1].success = FALSE
    /\ last_reply = Some([kind |-> "object", body |-> ErrorBody, status_code |-> 200])
    /\ Len(posts) = 2

\* C6: when the service answers HTTP 200 with a JSON object holding a
\* "response" key, the value optimize returns has _metadata.status_code = 200
\* and _metadata.response_time_seconds >= 0, and the record run_benchmark
\* appends has success = TRUE whatever the solver status in the response.
C6_ResponseBodySucceeds ==
    [][(/\ Answered
        /\ last_reply'[1].kind = "object"
        /\ last_reply'[1].status_code = 200
        /\ "response" \in DOMAIN last_reply'[1].body)
       => /\ result' /= None
          /\ result'[1]["_metadata"].status_code = 200
          /\ result'[1]["_metadata"].response_time_seconds >= 0
          /\ result'[1]["response"] = last_reply'[1].body.response
          /\ Len(scenario_results') = Len(scenario_results) + 1
          /\ scenario_results'[Len(scenario_results')].success = TRUE]_vars

C6_Witness ==
    /\ pc = "for_iteration"
    /\ last_reply = Some([kind |-> "object", body |-> ResponseBody(1),
                          status_code |-> 200])
    /\ result /= None
    /\ result[1]["_metadata"].response_time_seconds = 1
    /\ Len(scenario_results) >= 1
    /\ scenario_results[Len(scenario_results)].success = TRUE

\* C7: generate_cost_matrix(n), with or without a seed, returns n rows of n
\* entries each, with every diagonal entry 0.
C7_SquareZeroDiagonal ==
    ret.op = "generate_cost_matrix" =>
        /\ Len(ret.matrix) = ret.num_locations
        /\ \A r \in 1..Len(ret.matrix) :
             /\ Len(ret.matrix[r]) = ret.num_locations
             /\ ret.matrix[r][r] = 0

C7_Witness ==
    /\ ret.op = "generate_cost_matrix"
    /\ ret.num_locations = 3
    /\ ret.seed = None
    /\ ret.matrix[1][2] /= 0
    /\ prev_gen /= None
    /\ prev_gen[1].seed = Some(7)
    /\ prev_gen[1].num_locations = 2

\* records of the scenario being run, matched against its submissions
CurrentRecordsFollowPosts ==
    pc \in {"for_iteration", "post", "raised"} =>
        \A j \in 1..Len(scenario_results) :
            /\ PostOf(sIdx, j) <= Len(posts)
            /\ scenario_results[j].iteration = j
            /\ scenario_results[j].response_time = posts[PostOf(sIdx, j)].elapsed
            /\ scenario_results[j].success = posts[PostOf(sIdx, j)].success

\* stored entries, matched against the input list and the submissions
StoredEntriesFollowPosts ==
    iterations_per_scenario >= 1 =>
        /\ Len(results) <= Len(scenarios)
        /\ pc \in {"for_iteration", "post"} => Len(results) = sIdx - 1
        /\ \A e \in 1..Len(results) :
             /\ results[e].value.config = scenarios[e]
             /\ Len(results[e].value.results) = iterations_per_scenario
             /\ \A j \in 1..iterations_per_scenario :
                  /\ results[e].value.results[j].iteration = j
                  /\ results[e].value.results[j].response_time
                        = posts[PostOf(e, j)].elapsed
                  /\ results[e].value.results[j].success = posts[PostOf(e, j)].success

\* C8: submissions are issued scenario by scenario in input order and iteration
\* by iteration, each only after the one before it has returned; the j-th
\* record of a scenario holds the response time and success of its j-th
\* submission, and entries are stored in input-list order.
C8_SubmissionOrderKept ==
    /\ \A p \in 1..Len(posts) :
         /\ posts[p].iteration \in 1..iterations_per_scenario
         /\ posts[p].scenario \in 1..Len(scenarios)
         /\ p = PostOf(posts[p].scenario, posts[p].iteration)
         /\ p < Len(posts) => posts[p].state = "returned"
    /\ CurrentRecordsFollowPosts
    /\ StoredEntriesFollowPosts

C8_Witness ==
    /\ pc = "returned"
    /\ Len(results) = 2
    /\ iterations_per_scenario = 2
    /\ results[1].value.config /= results[2].value.config
    /\ results[1].value.results[1].success
    /\ ~results[1].value.results[2].success
    /\ results[2].value.results[1].response_time = 0
    /\ results[2].value.results[2].response_time = 1

\* C9: a submission that raises ends run_benchmark with that exception: no
\* report is returned and no submission follows the failing one.
C9_RaiseAbortsRun ==
    /\ \A p \in 1..Len(posts) :
         posts[p].state = "raised" =>
            /\ p = Len(posts)
            /\ pc = "raised"
            /\ exc /= "none"
    /\ exc /= "none" => pc = "raised"
    /\ pc = "returned" => \A p \in 1..Len(posts) : posts[p].state = "returned"

C9_Witness ==
    /\ pc = "raised"
    /\ exc = "ConnectionError"
    /\ Len(results) = 1
    /\ Len(results[1].value.results) = 2
    /\ Len(posts) = 3
    /\ posts[3].state = "raised"

\* C10: every call of optimize issues exactly one POST: a completed run over S
\* scenarios with k iterations has issued S * k POSTs, and a run aborted by a
\* failing submission has issued exactly one POST for the failing iteration.
C10_OnePostPerCall ==
    /\ \A p, q \in 1..Len(posts) :
         (posts[p].scenario = posts[q].scenario
          /\ posts[p].iteration = posts[q].iteration) => p = q
    /\ pc = "returned" => Len(posts) = Len(scenarios) * iterations_per_scenario
    /\ pc = "post" => Len(posts) = PostOf(sIdx, i + 1)
    /\ pc = "for_iteration" => Len(posts) = PostOf(sIdx, i)
    /\ (pc = "raised" /\ last_reply /= None /\ OptimizeRaises(last_reply[1]) /= "none")
         => /\ Len(posts) = PostOf(sIdx, i + 1)
            /\ posts[Len(posts)].scenario = sIdx
            /\ posts[Len(posts)].iteration = i + 1

C10_Witness ==
    /\ pc = "returned"
    /\ Len(scenarios) = 2
    /\ iterations_per_scenario = 2
    /\ Len(posts) = 4
    /\ \E p \in 1..4 : ~posts[p].success

\* C11: for every status code and every decodable JSON body (an object or any
\* other JSON value) optimize returns without raising, and the value returned
\* holds every key of the body with its value, plus _metadata with the elapsed
\* time and the status code.
C11_EveryJsonBodyReturned ==
    (ret.op = "optimize" /\ ret.reply.kind \in {"object", "array"})
    => /\ ret.raised = "none"
       /\ ret.value /= None
       /\ ret.reply.kind = "object" =>
            /\ \A k \in DOMAIN ret.reply.body : ret.value[1][k] = ret.reply.body[k]
            /\ ret.value[1]["_metadata"].status_code = ret.reply.status_code
            /\ ret.value[1]["_metadata"].response_time_seconds >= 0

\* the cost matrix a logged POST carried
MatrixSent(p) == posts[p].payload.cost_matrix_data.data["0"]

\* C12: within one scenario every iteration builds its payload anew, and the
\* cost matrices submitted in two different iterations differ, also when the
\* two iterations start within the same clock millisecond.
C12_IterationsDiffer ==
    \A p, q \in 1..Len(posts) :
        (posts[p].scenario = posts[q].scenario /\ p /= q)
        => MatrixSent(p) /= MatrixSent(q)

\* C13: task_locations of a built payload is exactly 1, 2, ..., N - 1: the depot
\* index 0 is no task, every other index of the cost matrix appears exactly
\* once, and every task location is an index below N of the payload's matrix.
C13_TasksAreNonDepotIndices ==
    ret.op = "build_vrp_payload" =>
        LET tl == ret.payload.task_data.task_locations
            m  == ret.payload.cost_matrix_data.data["0"]
            n  == ret.num_locations
        IN  /\ Len(m) = n
            /\ Len(tl) = n - 1
            /\ \A k \in 1..Len(tl) : tl[k] = k /\ tl[k] /= 0 /\ tl[k] < Len(m)
            /\ \A idx \in 1..(n - 1) :
                 Cardinality({k \in 1..Len(tl) : tl[k] = idx}) = 1

C13_Witness ==
    /\ ret.op = "build_vrp_payload"
    /\ ret.num_locations = 3
    /\ ret.payload.task_data.task_locations = <<1, 2>>
    /\ Len(ret.payload.cost_matrix_data.data["0"]) = 3

\* C14: fleet_data of a payload built for V vehicles of capacity C describes
\* exactly V vehicles: V vehicle_locations, each starting and ending at depot
\* index 0; capacities carrying exactly V values, all C; V vehicle_time_windows,
\* all the same window.
C14_FleetOfVVehicles ==
    ret.op = "build_vrp_payload" =>
        LET fd == ret.payload.fleet_data
            v  == ret.num_vehicles
        IN  /\ Len(fd.vehicle_locations) = v
            /\ \A k \in 1..Len(fd.vehicle_locations) : fd.vehicle_locations[k] = <<0, 0>>
            /\ Len(fd.capacities) = 1
            /\ Len(fd.capacities[1]) = v
            /\ \A k \in 1..Len(fd.capacities[1]) :
                 fd.capacities[1][k] = ret.vehicle_capacity
            /\ Len(fd.vehicle_time_windows) = v
            /\ \A k \in 1..Len(fd.vehicle_time_windows) :
                 fd.vehicle_time_windows[k] = fd.vehicle_time_windows[1]

C14_Witness ==
    /\ ret.op = "build_vrp_payload"
    /\ ret.num_vehicles = 2
    /\ ret.vehicle_capacity = 50
    /\ ret.payload.fleet_data.capacities = <<<<50, 50>>>>
    /\ ret.payload.fleet_data.vehicle_locations = <<<<0, 0>>, <<0, 0>>>>

\* the cost matrix a payload carries
CostMatrixOf(payload) == payload.cost_matrix_data.data["0"]

\* the off-diagonal entries of m lie in lo..hi and its diagonal entries are 0
EntriesWithin(m, lo, hi) ==
    \A r \in 1..Len(m) : \A c \in 1..Len(m[r]) :
        IF r = c THEN m[r][c] = 0 ELSE m[r][c] \in lo..hi

\* C15: every off-diagonal entry of a generated cost matrix lies in 5..100 for
\* generate_cost_matrix and in 3..15 for generate_ev_fleet_problem, and only
\* diagonal entries are 0.
C15_OffDiagonalInRange ==
    /\ ret.op = "generate_cost_matrix" =>
           /\ EntriesWithin(ret.matrix, 5, 100)
           /\ \A r, c \in 1..Len(ret.matrix) : ret.matrix[r][c] = 0 => r = c
    /\ ret.op = "generate_ev_fleet_problem" =>
           LET m == CostMatrixOf(ret.payload)
           IN  /\ EntriesWithin(m, 3, 15)
               /\ \A r, c \in 1..Len(m) : m[r][c] = 0 => r = c

C15_Witness ==
    /\ ret.op = "generate_ev_fleet_problem"
    /\ ret.num_deliveries = 2
    /\ ret.num_charging_stations = 1
    /\ Len(CostMatrixOf(ret.payload)) = 4
    /\ CostMatrixOf(ret.payload)[1][2] /= CostMatrixOf(ret.payload)[2][1]
    /\ prev_gen /= None \/ draws > 0 \/ clock > 0

\* C16: in every run_benchmark each POST carries a transport timeout equal to
\* its scenario's time_limit plus 120 (150 when the scenario gives none), the
\* payload sent declares that same time_limit in solver_config, and so the
\* timeout is strictly greater than the declared solver budget.
C16_TimeoutTracksBudget ==
    \A p \in 1..Len(posts) :
        LET sc     == scenarios[posts[p].scenario]
            budget == IF sc.time_limit = None THEN 30 ELSE sc.time_limit[1]
        IN  /\ posts[p].timeout = budget + 120
            /\ posts[p].payload.solver_config.time_limit = budget
            /\ posts[p].timeout > posts[p].payload.solver_config.time_limit

C16_Witness ==
    /\ Len(posts) >= 2
    /\ \E p, q \in 1..Len(posts) :
         /\ scenarios[posts[p].scenario].time_limit = None
         /\ posts[p].timeout = 150
         /\ scenarios[posts[q].scenario].time_limit = Some(60)
         /\ posts[q].timeout = 180

\* C17: when no scenario carries a name, run_benchmark stores the i-th scenario
\* (counted from 0) under the key "scenario_<i>"; the keys are pairwise
\* distinct, the report has as many entries as there are scenarios, and each
\* entry's config is the scenario passed in.
C17_UnnamedScenariosKeyed ==
    (pc = "returned" /\ \A e \in 1..Len(scenarios) : ~Named(scenarios[e]))
    => /\ Len(results) = Len(scenarios)
       /\ \A e \in 1..Len(results) :
            /\ results[e].key = "scenario_" \o ToString(e - 1)
            /\ results[e].value.config = scenarios[e]
       /\ \A e, f \in 1..Len(results) : results[e].key = results[f].key => e = f

C17_Witness ==
    /\ pc = "returned"
    /\ Len(scenarios) = 2
    /\ scenarios[1] = scenarios[2]
    /\ ~Named(scenarios[1])
    /\ iterations_per_scenario = 2
    /\ Keys(results) = <<"scenario_0", "scenario_1">>

\* C18: a payload of generate_ev_fleet_problem for D deliveries and S charging
\* stations has a cost matrix of size 1 + D + S, task_locations 1..D, demand,
\* service_times and task_time_windows for exactly D tasks, and every task
\* time window [start, end] has 480 <= start < end <= 1080.
C18_EvPayloadShape ==
    ret.op = "generate_ev_fleet_problem" =>
        LET d  == ret.num_deliveries
            n  == 1 + ret.num_deliveries + ret.num_charging_stations
            m  == CostMatrixOf(ret.payload)
            td == ret.payload.task_data
        IN  /\ Len(m) = n
            /\ \A r \in 1..Len(m) : Len(m[r]) = n
            /\ td.task_locations = [k \in 1..d |-> k]
            /\ Len(td.demand) = 1
            /\ Len(td.demand[1]) = d
            /\ Len(td.service_times) = d
            /\ Len(td.task_time_windows) = d
            /\ \A k \in 1..Len(td.task_time_windows) :
                 LET w == td.task_time_windows[k]
                 IN  Len(w) = 2 /\ 480 <= w[1] /\ w[1] < w[2] /\ w[2] <= 1080

C18_Witness ==
    /\ ret.op = "generate_ev_fleet_problem"
    /\ ret.num_deliveries = 2
    /\ ret.num_charging_stations = 1
    /\ ret.payload.task_data.task_locations = <<1, 2>>
    /\ Len(ret.payload.task_data.task_time_windows) = 2
    /\ ret.payload.task_data.task_time_windows[1] /= ret.payload.task_data.task_time_windows[2]

====
